---- MODULE Spec2Model ----
(***************************************************************************)
(* DataForSEOClient (src/dataforseo/client.py): the request builder, the   *)
(* mode dispatcher and the response normalizer of serp, msv and            *)
(* keywords_for_site, and the keyword sanitizer contains_invalid_chars.    *)
(*                                                                         *)
(* Python values are encoded as follows.  A str is the sequence of its     *)
(* code points.  The entries of a query list, and every value the builder  *)
(* derives from them, are tagged records [tag, kw, loc]: Str(s) is a str,  *)
(* PyInt(n) an int and Tuple(s, n) the pair (s, n).  None is the token     *)
(* NoneVal where a str is expected.  A dict is a function on its keys.     *)
(* A url is the sequence of the strings the code concatenates.             *)
(***************************************************************************)
EXTENDS Integers, Sequences, FiniteSets, TLC

VARIABLES api_url, call, remote, pc, requests, outcome, printed, resultRead

vars == <<api_url, call, remote, pc, requests, outcome, printed, resultRead>>

\* Longest query list the caller passes.
MaxLen == 2
\* Most tasks in a decoded response.
MaxTasks == 2

----------------------------------------------------------------------------
(* Python values *)

NoneVal == "<None>"

Str(s) == [tag |-> "str", kw |-> s, loc |-> 0]

PyInt(n) == [tag |-> "int", kw |-> <<>>, loc |-> n]

Tuple(s, n) == [tag |-> "tuple", kw |-> s, loc |-> n]

\* v[i] of a tuple or a str (i counted from 0) can be taken without IndexError
CanIndex(v, i) ==
    IF v.tag = "tuple" THEN i < 2 ELSE i < Len(v.kw)

\* v[i]: the component of a tuple, the one-character str of a str
Index(v, i) ==
    IF v.tag = "tuple"
    THEN (IF i = 0 THEN Str(v.kw) ELSE PyInt(v.loc))
    ELSE Str(<<v.kw[i + 1]>>)

\* a merge in which the defaults win over the caller's keys
Merge_DefaultsWin(base, extra) ==
    [k \in (DOMAIN base) \cup (DOMAIN extra) |->
        IF k \in DOMAIN base THEN base[k] ELSE extra[k]]

\* {**base, **extra}: the keys of both, extra's value on a collision
Merge(base, extra) ==
    [k \in (DOMAIN base) \cup (DOMAIN extra) |->
        IF k \in DOMAIN extra THEN extra[k] ELSE base[k]]

----------------------------------------------------------------------------
(* contains_invalid_chars *)

\* invalid_chars_pattern: the inclusive code point ranges of the character class
InvalidRanges == {
    <<0, 31>>, <<33, 33>>, <<37, 37>>, <<40, 42>>, <<44, 44>>,
    <<59, 64>>, <<92, 92>>, <<94, 94>>, <<96, 96>>, <<123, 159>>,
    <<161, 162>>, <<164, 169>>, <<171, 180>>, <<182, 182>>,
    <<184, 185>>, <<187, 191>>, <<215, 215>>, <<247, 247>>, <<592, 600>>,
    <<602, 687>>, <<706, 709>>, <<722, 735>>, <<741, 747>>,
    <<749, 749>>, <<751, 767>>, <<885, 885>>, <<894, 894>>, <<900, 901>>,
    <<903, 903>>, <<1014, 1014>>, <<1154, 1154>>, <<1160, 1161>>, <<1370, 1376>>,
    <<1416, 1423>>, <<1470, 1470>>, <<1472, 1472>>, <<1475, 1475>>, <<1478, 1478>>, <<1519, 1519>>,
    <<1523, 1551>>, <<1563, 1567>>, <<1642, 1645>>, <<1748, 1748>>,
    <<1757, 1758>>, <<1769, 1769>>, <<1789, 1790>>, <<1792, 1807>>,
    <<2038, 2041>>, <<2045, 2047>>, <<2096, 2110>>, <<2142, 2142>>,
    <<2160, 2207>>, <<2229, 2229>>, <<2238, 2259>>, <<2274, 2274>>, <<2404, 2405>>,
    <<2416, 2416>>, <<2546, 2555>>, <<2557, 2558>>, <<2678, 2678>>, <<2800, 2801>>,
    <<2901, 2901>>, <<2928, 2928>>, <<2930, 2935>>, <<3056, 3066>>, <<3076, 3076>>,
    <<3132, 3132>>, <<3165, 3165>>, <<3191, 3199>>, <<3204, 3204>>, <<3293, 3293>>, <<3332, 3332>>,
    <<3407, 3407>>, <<3416, 3422>>, <<3440, 3449>>, <<3457, 3457>>, <<3572, 3572>>,
    <<3647, 3647>>, <<3663, 3663>>, <<3674, 3675>>, <<3718, 3718>>, <<3721, 3721>>, <<3724, 3724>>,
    <<3726, 3731>>, <<3736, 3736>>, <<3744, 3744>>, <<3752, 3753>>, <<3756, 3756>>,
    <<3770, 3770>>, <<3841, 3863>>, <<3866, 3871>>, <<3882, 3892>>,
    <<3894, 3894>>, <<3896, 3896>>, <<3898, 3901>>, <<3973, 3973>>, <<4030, 4037>>,
    <<4039, 4058>>, <<4170, 4175>>, <<4254, 4255>>, <<4347, 4347>>
    }

\* bool(re.search(invalid_chars_pattern, input_string))
contains_invalid_chars(input_string) ==
    \E i \in DOMAIN input_string :
        \E r \in InvalidRanges :
            r[1] <= input_string[i] /\ input_string[i] <= r[2]

----------------------------------------------------------------------------
(* Outcomes of a call: what it returns or raises *)

NoEnvelope == [tasks_error |-> 0, hasTasks |-> FALSE, tasks |-> <<>>]

Blank ==
    [kind |-> "pass", exc |-> "", message |-> "", error_code |-> 0,
     envelope |-> NoEnvelope, result |-> "", records |-> <<>>]

\* raise exc (ValueError, KeyError, IndexError, TypeError)
Raise(exc) == [Blank EXCEPT !.kind = "raise", !.exc = exc]

\* InvalidParameterError.__init__(message, error_code)
InvalidParameterError(message, error_code) ==
    [Blank EXCEPT !.kind = "raise", !.exc = "InvalidParameterError",
                  !.message = message, !.error_code = error_code]

ReturnEnvelope(response) == [Blank EXCEPT !.kind = "envelope", !.envelope = response]

ReturnResult(result) == [Blank EXCEPT !.kind = "result", !.result = result]

ReturnNone == [Blank EXCEPT !.kind = "none"]

ReturnRecords(records) == [Blank EXCEPT !.kind = "records", !.records = records]

----------------------------------------------------------------------------
(* Mode dispatcher *)

\* bool(x) of a str that may be None
TruthyStr(s) == s # NoneVal /\ s # ""

\* a validation that lets the empty string through
TruthyQuery_EmptyStrOk(q) ==
    \/ q.shape = "str"
    \/ q.shape = "list" /\ q.items # <<>>

\* bool(keyword), bool(site): None, "" and [] are falsy
TruthyQuery(q) ==
    \/ q.shape = "str" /\ q.s # <<>>
    \/ q.shape = "list" /\ q.items # <<>>

\* if isinstance(keyword, str): keyword = [keyword]
AsList(q) == IF q.shape = "str" THEN <<Str(q.s)>> ELSE q.items

\* a dispatcher that tests live before task_id
SelectMode_LiveFirst(task_id, live) ==
    IF live THEN "live"
    ELSE IF TruthyStr(task_id) THEN "task_retrieve"
    ELSE "task_post"

\* if task_id: ... / if live: ... else: ...
SelectMode(task_id, live) ==
    IF TruthyStr(task_id) THEN "task_retrieve"
    ELSE IF live THEN "live"
    ELSE "task_post"

\* the path the code appends to api_url, by operation and mode
Path(op, mode) ==
    CASE op = "serp" /\ mode = "task_retrieve" -> "serp/google/organic/task_get/advanced/"
      [] op = "serp" /\ mode = "live" -> "serp/google/organic/live/advanced"
      [] op = "serp" /\ mode = "task_post" -> "serp/google/organic/task_post"
      [] op = "msv" /\ mode = "task_retrieve" -> "keywords_data/google_ads/search_volume/task_get/"
      [] op = "msv" /\ mode = "live" -> "keywords_data/google_ads/search_volume/live"
      [] op = "msv" /\ mode = "task_post" -> "keywords_data/google_ads/search_volume/task_post"
      [] op = "keywords_for_site" /\ mode = "task_retrieve" -> "keywords_data/google_ads/keywords_for_site/task_get/"
      [] op = "keywords_for_site" /\ mode = "live" -> "keywords_data/google_ads/keywords_for_site/live"
      [] op = "keywords_for_site" /\ mode = "task_post" -> "keywords_data/google_ads/keywords_for_site/task_post"

\* self.client.get(url)
Get(url) == [method |-> "GET", url |-> url, payload |-> <<>>]

\* self.client.post(url, json=payload)
Post(url, payload) == [method |-> "POST", url |-> url, payload |-> payload]

----------------------------------------------------------------------------
(* Response normalizer *)

\* an error check that tolerates a single failed task
ErrorCheck_OffByOne(response) ==
    IF response.tasks_error > 1
    THEN IF ~response.hasTasks THEN Raise("KeyError")
         ELSE IF response.tasks = <<>> THEN Raise("IndexError")
         ELSE InvalidParameterError(response.tasks[1].status_message,
                                    response.tasks[1].status_code)
    ELSE Blank

\* if response["tasks_error"] > 0: raise InvalidParameterError(tasks[0] ...)
ErrorCheck(response) ==
    IF response.tasks_error > 0
    THEN IF ~response.hasTasks THEN Raise("KeyError")
         ELSE IF response.tasks = <<>> THEN Raise("IndexError")
         ELSE InvalidParameterError(response.tasks[1].status_message,
                                    response.tasks[1].status_code)
    ELSE Blank

RECURSIVE SumCost(_)
SumCost(tasks) ==
    IF tasks = <<>> THEN 0 ELSE Head(tasks).cost.v + SumCost(Tail(tasks))

\* sum([item["cost"] for item in response["tasks"]]) evaluates without an exception
CostComputes(response) ==
    /\ response.hasTasks
    /\ \A i \in DOMAIN response.tasks : response.tasks[i].cost.kind = "num"

\* the cost diagnostic without its try/except
DebugCost_Unguarded(debug, response) ==
    IF ~debug THEN [printed |-> <<>>, exc |-> ""]
    ELSE IF CostComputes(response)
    THEN [printed |-> <<[text |-> "Total request cost:", n |-> SumCost(response.tasks)]>>,
          exc |-> ""]
    ELSE [printed |-> <<>>,
          exc |-> IF response.hasTasks THEN "TypeError" ELSE "KeyError"]

\* if debug: try: print("Total request cost:", sum(...)) except: print(...)
DebugCost(debug, response) ==
    IF ~debug THEN [printed |-> <<>>, exc |-> ""]
    ELSE IF CostComputes(response)
    THEN [printed |-> <<[text |-> "Total request cost:", n |-> SumCost(response.tasks)]>>,
          exc |-> ""]
    ELSE [printed |-> <<[text |-> "Could not calculate total request cost", n |-> 0]>>,
          exc |-> ""]

\* the key of the echoed query parameter in task["data"]
QueryKey(op) ==
    CASE op = "serp" -> "keyword"
      [] op = "msv" -> "keywords"
      [] op = "keywords_for_site" -> "target"

\* {"task_id": task["id"], <key>: task["data"][<key>], "location_code": ...}
Condensed(op, task) ==
    ("task_id" :> task.id) @@ (QueryKey(op) :> task.data[QueryKey(op)])
        @@ ("location_code" :> task.data["location_code"])

\* condensed records in the reverse of the response's order
CondensedRecords_Reversed(op, tasks) ==
    [i \in 1..Len(tasks) |-> Condensed(op, tasks[Len(tasks) + 1 - i])]

\* [Condensed(task) for task in response["tasks"]]
CondensedRecords(op, tasks) ==
    [i \in 1..Len(tasks) |-> Condensed(op, tasks[i])]

\* the return statement of each mode
Shape(op, mode, response) ==
    CASE mode = "task_retrieve" ->
            IF ~response.hasTasks THEN ReturnNone
            ELSE IF response.tasks = <<>> THEN Raise("IndexError")
            ELSE ReturnResult(response.tasks[1].result)
      [] mode = "live" -> ReturnEnvelope(response)
      [] mode = "task_post" ->
            IF ~response.hasTasks THEN Raise("KeyError")
            ELSE ReturnRecords(CondensedRecords(op, response.tasks))

\* everything after response.json(): error check, cost diagnostic, return
Normalize(op, mode, debug, response) ==
    LET err == ErrorCheck(response)
        d == DebugCost(debug, response)
    IN  IF err.kind = "raise"
        THEN [outcome |-> err, printed |-> <<>>, resultRead |-> FALSE]
        ELSE IF d.exc # ""
        THEN [outcome |-> Raise(d.exc), printed |-> d.printed, resultRead |-> FALSE]
        ELSE [outcome |-> Shape(op, mode, response), printed |-> d.printed,
              resultRead |-> mode = "task_retrieve" /\ response.hasTasks
                             /\ response.tasks # <<>>]

\* a call that raised before any request
Failed(exc, diag) ==
    [requests |-> <<>>, outcome |-> Raise(exc), printed |-> diag, resultRead |-> FALSE]

\* a call that issued req and normalized the decoded response
Completed(req, diag, n) ==
    [requests |-> <<req>>, outcome |-> n.outcome, printed |-> diag \o n.printed,
     resultRead |-> n.resultRead]

\* the task_id branch shared by the three operations
Retrieve(url, op, debug, response) ==
    Completed(Get(url), <<>>, Normalize(op, "task_retrieve", debug, response))

----------------------------------------------------------------------------
(* serp *)

\* kw[0] or kw[1] raises IndexError for some entry of the tuple branch
SerpBuildFails(keyword) ==
    /\ keyword[1].tag = "tuple"
    /\ \E i \in DOMAIN keyword : ~CanIndex(keyword[i], 0) \/ ~CanIndex(keyword[i], 1)

SerpDefaults(kw, loc) ==
    [keyword |-> kw, location_code |-> loc, language_code |-> "en",
     device |-> "desktop", os |-> "windows", depth |-> 100]

\* payload = [{**{...}, **kwargs} for kw in keyword], by the shape of keyword[0]
SerpPayload(keyword, location_code, kwargs) ==
    IF keyword[1].tag = "tuple"
    THEN [i \in 1..Len(keyword) |->
            Merge(SerpDefaults(Index(keyword[i], 0), Index(keyword[i], 1)), kwargs)]
    ELSE [i \in 1..Len(keyword) |->
            Merge(SerpDefaults(keyword[i], PyInt(location_code)), kwargs)]

\* DataForSEOClient.serp
SerpResult(url, c, response) ==
    LET mode == SelectMode(c.task_id, c.live)
        keyword == AsList(c.query)
    IN  IF mode = "task_retrieve"
        THEN Retrieve(url \o <<Path("serp", mode), c.task_id>>, "serp", c.debug, response)
        ELSE IF ~TruthyQuery(c.query) THEN Failed("ValueError", <<>>)
        ELSE IF SerpBuildFails(keyword) THEN Failed("IndexError", <<>>)
        ELSE Completed(Post(url \o <<Path("serp", mode)>>,
                            SerpPayload(keyword, c.location_code, c.kwargs)),
                       <<>>, Normalize("serp", mode, c.debug, response))

----------------------------------------------------------------------------
(* msv *)

\* the exception the sanitizing pass raises, "" if none
MsvCleanError(keyword) ==
    IF keyword[1].tag = "tuple"
    THEN IF \E i \in DOMAIN keyword :
                \/ ~CanIndex(keyword[i], 0)
                \/ /\ ~contains_invalid_chars(Index(keyword[i], 0).kw)
                   /\ ~CanIndex(keyword[i], 1)
         THEN "IndexError" ELSE ""
    ELSE IF \E i \in DOMAIN keyword : keyword[i].tag # "str"
         THEN "TypeError" ELSE ""

\* kw passes the sanitizer, in the tuple branch
PairIsClean(kw) == ~contains_invalid_chars(Index(kw, 0).kw)

\* kw passes the sanitizer, in the plain branch
PlainIsClean(kw) == ~contains_invalid_chars(kw.kw)

\* {"keyword": kw[0], "location_code": kw[1]}
PairDict(kw) == [keyword |-> Index(kw, 0), location_code |-> Index(kw, 1)]

\* a sanitizing pass that drops nothing
MsvClean_NoFilter(keyword) ==
    IF keyword[1].tag = "tuple"
    THEN [i \in 1..Len(keyword) |-> PairDict(keyword[i])]
    ELSE keyword

\* the first assignment of clean_keywords
MsvClean(keyword) ==
    IF keyword[1].tag = "tuple"
    THEN LET kept == SelectSeq(keyword, PairIsClean)
         IN  [i \in 1..Len(kept) |-> PairDict(kept[i])]
    ELSE SelectSeq(keyword, PlainIsClean)

\* set([kw["location_code"] for kw in clean_keywords])
MsvLocations(clean) == {clean[i].location_code : i \in DOMAIN clean}

\* the orders in which a set of that size may be iterated
Orders(S) ==
    {o \in [1..Cardinality(S) -> S] : \A i, j \in DOMAIN o : i # j => o[i] # o[j]}

\* a grouping that forgets to compare the location code
KeywordsAt_AnyLocation(clean, loc) ==
    [i \in 1..Len(clean) |-> clean[i].keyword]

\* [kw["keyword"] for kw in clean_keywords if kw["location_code"] == loc]
KeywordsAt(clean, loc) ==
    LET AtLoc(d) == d.location_code = loc
        kept == SelectSeq(clean, AtLoc)
    IN  [i \in 1..Len(kept) |-> kept[i].keyword]

\* group by location code, in iteration order `order` of the set
MsvGroups(clean, order) ==
    [i \in 1..Len(order) |->
        [keywords |-> KeywordsAt(clean, order[i]), location_code |-> order[i]]]

\* clean_keywords as line 264 and the payload see it
MsvCleanKeywords(keyword, order) ==
    IF keyword[1].tag = "tuple" THEN MsvGroups(MsvClean(keyword), order)
    ELSE MsvClean(keyword)

\* total_dropped := len(keyword) - len(clean_keywords)
TotalDropped(keyword, clean_keywords) == Len(keyword) - Len(clean_keywords)

\* if total_dropped: print("Dropped", total_dropped, "invalid keywords")
DroppedDiagnostic(total_dropped) ==
    IF total_dropped # 0
    THEN <<[text |-> "Dropped", n |-> total_dropped]>>
    ELSE <<>>

MsvDefaults(kws, loc) ==
    [keywords |-> kws, location_code |-> loc, language_code |-> "en",
     date_from |-> NoneVal, date_to |-> NoneVal]

\* payload, by the shape of keyword[0]
MsvPayload(keyword, clean_keywords, location_code, kwargs) ==
    IF keyword[1].tag = "tuple"
    THEN [i \in 1..Len(clean_keywords) |->
            Merge(MsvDefaults(clean_keywords[i].keywords,
                              clean_keywords[i].location_code), kwargs)]
    ELSE <<Merge(MsvDefaults(clean_keywords, PyInt(location_code)), kwargs)>>

\* the iteration orders msv may meet for this call
MsvOrders(c) ==
    IF TruthyStr(c.task_id) \/ ~TruthyQuery(c.query) THEN {<<>>}
    ELSE LET keyword == AsList(c.query)
         IN  IF keyword[1].tag = "tuple" /\ MsvCleanError(keyword) = ""
             THEN Orders(MsvLocations(MsvClean(keyword)))
             ELSE {<<>>}

\* DataForSEOClient.msv
MsvResult(url, c, response, order) ==
    LET mode == SelectMode(c.task_id, c.live)
        keyword == AsList(c.query)
    IN  IF mode = "task_retrieve"
        THEN Retrieve(url \o <<Path("msv", mode), c.task_id>>, "msv", c.debug, response)
        ELSE IF ~TruthyQuery(c.query) THEN Failed("ValueError", <<>>)
        ELSE IF MsvCleanError(keyword) # "" THEN Failed(MsvCleanError(keyword), <<>>)
        ELSE LET clean_keywords == MsvCleanKeywords(keyword, order)
                 diag == DroppedDiagnostic(TotalDropped(keyword, clean_keywords))
             IN  Completed(Post(url \o <<Path("msv", mode)>>,
                                MsvPayload(keyword, clean_keywords, c.location_code,
                                           c.kwargs)),
                           diag, Normalize("msv", mode, c.debug, response))

----------------------------------------------------------------------------
(* keywords_for_site *)

\* payload = [{"target": s, ..., **kwargs} for s in site]
KfsPayload(site, location_code, kwargs) ==
    [i \in 1..Len(site) |->
        Merge([target |-> site[i], location_code |-> PyInt(location_code),
               date_from |-> NoneVal, date_to |-> NoneVal], kwargs)]

\* DataForSEOClient.keywords_for_site (it has no debug parameter)
KfsResult(url, c, response) ==
    LET mode == SelectMode(c.task_id, c.live)
    IN  IF mode = "task_retrieve"
        THEN Retrieve(url \o <<Path("keywords_for_site", mode), c.task_id>>,
                      "keywords_for_site", FALSE, response)
        ELSE IF ~TruthyQuery(c.query) THEN Failed("ValueError", <<>>)
        ELSE Completed(Post(url \o <<Path("keywords_for_site", mode)>>,
                            KfsPayload(AsList(c.query), c.location_code, c.kwargs)),
                       <<>>, Normalize("keywords_for_site", mode, FALSE, response))

----------------------------------------------------------------------------
(* The caller's inputs and the remote's replies *)

DefaultLocationCode == 2840

\* "a", "bc" pass the sanitizer; "a!" holds U+0021
KeywordPool == {<<97>>, <<98, 99>>, <<97, 33>>}

LocationPool == {2826, 2250}

LocationArgs == {DefaultLocationCode, 2250}

TaskIds == {NoneVal, "", "T1"}

Ops == {"serp", "msv", "keywords_for_site"}

Entries ==
    {Str(k) : k \in KeywordPool} \cup {Tuple(k, l) : k \in KeywordPool, l \in LocationPool}

NoQuery == [shape |-> "none", s |-> <<>>, items |-> <<>>]

StrQuery(k) == [shape |-> "str", s |-> k, items |-> <<>>]

ListQuery(l) == [shape |-> "list", s |-> <<>>, items |-> l]

Queries ==
    {NoQuery} \cup {StrQuery(k) : k \in KeywordPool \cup {<<>>}}
        \cup {ListQuery(l) : l \in UNION {[1..m -> Entries] : m \in 0..MaxLen}}

FewQueries ==
    {NoQuery, StrQuery(<<97>>),
     ListQuery(<<Str(<<98, 99>>), Str(<<97, 33>>)>>),
     ListQuery(<<Tuple(<<97, 33>>, 2826), Tuple(<<97>>, 2250)>>)}

\* **kwargs: none, a default overridden and a key added, the keywords key
KwargsOptions ==
    << <<>>,
       [language_code |-> "de", tag |-> "x"],
       [keywords |-> <<Str(<<97, 33>>)>>] >>

Echo(op, e, l) == (QueryKey(op) :> e) @@ ("location_code" :> l)

Cost(kind, v) == [kind |-> kind, v |-> v]

TaskPool(op) ==
    {[id |-> "T1", status_code |-> 20000, status_message |-> "Ok.",
      cost |-> Cost("num", 2), data |-> Echo(op, "E1", 2840), result |-> "R1"],
     [id |-> "T2", status_code |-> 20100, status_message |-> "Task Created.",
      cost |-> Cost("missing", 0), data |-> Echo(op, "E2", 2826), result |-> "R2"],
     [id |-> "T3", status_code |-> 40501, status_message |-> "Invalid Field: 'foo'",
      cost |-> Cost("str", 0), data |-> Echo(op, "E3", 2840), result |-> NoneVal],
     [id |-> "T4", status_code |-> 40000, status_message |-> NoneVal,
      cost |-> Cost("num", 1), data |-> Echo(op, "E1", 2250), result |-> NoneVal]}

\* decoded envelopes: no tasks collection, or up to MaxTasks tasks of which
\* tasks_error are counted as failed
Responses(op) ==
    {NoEnvelope} \cup
    {[tasks_error |-> e, hasTasks |-> TRUE, tasks |-> t] :
        e \in 0..MaxTasks, t \in UNION {[1..m -> TaskPool(op)] : m \in 0..MaxTasks}}

WellFormed(response) == response.tasks_error <= Len(response.tasks)

FewResponses(op) ==
    {r \in Responses(op) :
        /\ Len(r.tasks) = 2 /\ r.tasks[1].id = "T2" /\ r.tasks[2].id = "T1"
        /\ r.tasks_error = 0}

ApiUrl(sandbox) ==
    IF sandbox THEN <<"https://sandbox.dataforseo.com/v3/">>
    ELSE <<"https://api.dataforseo.com/v3/">>

----------------------------------------------------------------------------
(* The state machine: one pending call per behaviour *)

MakeCall(op, q, location_code, live, task_id, debug, kwargs) ==
    [op |-> op, query |-> q, location_code |-> location_code, live |-> live,
     task_id |-> task_id, debug |-> debug, kwargs |-> kwargs]

\* The builder runs before the request and reads nothing of the response; the
\* normalizer reads nothing of the query but the mode.  The first family
\* of initial states varies what the builder reads against one response, the
\* second what the normalizer reads against a few queries.
Init ==
    /\ \E op \in Ops, live \in BOOLEAN, task_id \in TaskIds :
        \/ \E q \in Queries, location_code \in LocationArgs,
                 k \in DOMAIN KwargsOptions, r \in FewResponses(op) :
                /\ api_url = ApiUrl(FALSE)
                /\ call = MakeCall(op, q, location_code, live, task_id, FALSE,
                                   KwargsOptions[k])
                /\ remote = r
        \/ \E q \in FewQueries, r \in Responses(op), debug \in BOOLEAN,
                 sandbox \in BOOLEAN :
                /\ WellFormed(r)
                /\ op = "keywords_for_site" => ~debug
                /\ api_url = ApiUrl(sandbox)
                /\ call = MakeCall(op, q, DefaultLocationCode, live, task_id, debug,
                                   KwargsOptions[1])
                /\ remote = r
    /\ pc = "ready"
    /\ requests = <<>>
    /\ outcome = Blank
    /\ printed = <<>>
    /\ resultRead = FALSE

Finish(r) ==
    /\ requests' = r.requests
    /\ outcome' = r.outcome
    /\ printed' = r.printed
    /\ resultRead' = r.resultRead
    /\ pc' = "done"
    /\ UNCHANGED <<api_url, call, remote>>

Serp ==
    /\ pc = "ready"
    /\ call.op = "serp"
    /\ Finish(SerpResult(api_url, call, remote))

Msv ==
    /\ pc = "ready"
    /\ call.op = "msv"
    /\ \E order \in MsvOrders(call) : Finish(MsvResult(api_url, call, remote, order))

KeywordsForSite ==
    /\ pc = "ready"
    /\ call.op = "keywords_for_site"
    /\ Finish(KfsResult(api_url, call, remote))

Next == Serp \/ Msv \/ KeywordsForSite

Spec == Init /\ [][Next]_vars

----------------------------------------------------------------------------
(* Vocabulary of the properties *)

Done == pc = "done"

\* a task_id was supplied: a non-empty string (None and "" select no retrieval)
Supplied == call.task_id # NoneVal /\ call.task_id # ""

Items == AsList(call.query)

NonEmptyQuery ==
    \/ call.query.shape = "str" /\ call.query.s # <<>>
    \/ call.query.shape = "list" /\ Len(call.query.items) > 0

AllPlain == \A i \in DOMAIN Items : Items[i].tag = "str"

AllPairs == \A i \in DOMAIN Items : Items[i].tag = "tuple"

Mixed == call.query.shape = "list" /\ ~AllPlain /\ ~AllPairs

Posted == Len(requests) = 1 /\ requests[1].method = "POST"

Payload == requests[1].payload

\* the indices of the input entries whose keyword the sanitizer accepts / rejects
ValidIdx == {i \in DOMAIN Items : ~contains_invalid_chars(Items[i].kw)}

InvalidIdx == {i \in DOMAIN Items : contains_invalid_chars(Items[i].kw)}

\* the input's keywords that pass the sanitizer, in input order
ValidKeywords ==
    LET Ok(e) == ~contains_invalid_chars(e.kw)
        kept == SelectSeq(Items, Ok)
    IN  [i \in 1..Len(kept) |-> Str(kept[i].kw)]

\* ... of those paired with location code loc
ValidKeywordsAt(loc) ==
    LET Ok(e) == ~contains_invalid_chars(e.kw) /\ e.loc = loc
        kept == SelectSeq(Items, Ok)
    IN  [i \in 1..Len(kept) |-> Str(kept[i].kw)]

InputCodes == {Items[i].loc : i \in DOMAIN Items}

ValidCodes == {Items[i].loc : i \in ValidIdx}

RECURSIVE IsSubseq(_, _)
IsSubseq(a, b) ==
    IF a = <<>> THEN TRUE
    ELSE IF b = <<>> THEN FALSE
    ELSE IF Head(a) = Head(b) THEN IsSubseq(Tail(a), Tail(b))
    ELSE IsSubseq(a, Tail(b))

DroppedLines == SelectSeq(printed, LAMBDA p : p.text = "Dropped")

----------------------------------------------------------------------------
(* Properties *)

\* C1: in every mode of serp, msv and keywords_for_site, a decoded response
\* with tasks_error > 0 makes the call raise InvalidParameterError carrying
\* tasks[0].status_message and tasks[0].status_code; nothing is returned and
\* no task's result field is read.
C1_ErrorCountRaises ==
    (Done /\ Len(requests) = 1 /\ remote.tasks_error > 0) =>
        /\ outcome.kind = "raise"
        /\ outcome.exc = "InvalidParameterError"
        /\ outcome.message = remote.tasks[1].status_message
        /\ outcome.error_code = remote.tasks[1].status_code
        /\ outcome.envelope = NoEnvelope
        /\ outcome.records = <<>>
        /\ outcome.result = ""
        /\ ~resultRead

\* a retrieval whose envelope counts one error while tasks[0] itself reports
\* success and a later task the failure
C1_Witness ==
    /\ Done /\ Supplied /\ call.op = "msv"
    /\ remote.tasks_error = 1 /\ Len(remote.tasks) = 2
    /\ remote.tasks[1].status_code = 20000 /\ remote.tasks[2].status_code = 40501
    /\ outcome.exc = "InvalidParameterError" /\ outcome.message = "Ok."

\* C2: the mode depends on (task_id, live) alone.  A supplied task_id gives
\* exactly one GET to the task_get path ending in the task_id, whatever live and
\* the query are, and the query is neither validated nor built into a payload;
\* without one, a request is a POST to the task_post path when live is false
\* and to the live path when it is true, and a well-shaped non-empty query
\* issues it.  No call issues more than one request.
C2_ModeFromTaskIdAndLive ==
    Done =>
        /\ Len(requests) <= 1
        /\ Supplied =>
            /\ requests = <<Get(api_url \o <<Path(call.op, "task_retrieve"), call.task_id>>)>>
            /\ requests[1].url[Len(requests[1].url)] = call.task_id
            /\ outcome.exc \notin {"ValueError", "TypeError"}
        /\ (~Supplied /\ Len(requests) = 1) =>
            /\ requests[1].method = "POST"
            /\ requests[1].url =
                  api_url \o <<Path(call.op, IF call.live THEN "live" ELSE "task_post")>>
        /\ (~Supplied /\ NonEmptyQuery /\ ~Mixed) => Len(requests) = 1

\* retrieval chosen although live is true and the query is a non-empty pair list
C2_Witness ==
    /\ Done /\ call.task_id = "T1" /\ call.live /\ call.op = "serp"
    /\ call.query.shape = "list" /\ Len(call.query.items) = 2 /\ AllPairs
    /\ Len(requests) = 1 /\ requests[1].method = "GET"
    /\ requests[1].url[2] = "serp/google/organic/task_get/advanced/"

C5_DroppedCountIsRejected ==
    (Done /\ call.op = "msv" /\ ~Supplied /\ NonEmptyQuery /\ ~Mixed) =>
        /\ Posted
        /\ IF Cardinality(InvalidIdx) > 0
           THEN DroppedLines = <<[text |-> "Dropped", n |-> Cardinality(InvalidIdx)]>>
           ELSE DroppedLines = <<>>

\* C6: with no task_id and an empty or absent query (None, "", []), serp, msv
\* and keywords_for_site raise ValueError and issue no request, whatever live is.
C6_EmptyQueryRejected ==
    (Done /\ ~Supplied /\ ~NonEmptyQuery) =>
        /\ outcome.kind = "raise"
        /\ outcome.exc = "ValueError"
        /\ requests = <<>>

\* keywords_for_site([], live=False) raised and sent nothing
C6_Witness ==
    /\ Done /\ call.op = "keywords_for_site" /\ ~call.live /\ call.task_id = NoneVal
    /\ call.query = ListQuery(<<>>)
    /\ outcome.exc = "ValueError" /\ requests = <<>>

\* C7: with live false, no task_id and a response with tasks_error = 0 that
\* carries a tasks array, the call returns one condensed record per task of the
\* response, in the response's order, each made of that task's own id and
\* echoed data and of nothing else.
C7_CondensedRecordsFollowResponse ==
    (Done /\ ~Supplied /\ ~call.live /\ Posted /\ remote.tasks_error = 0
          /\ remote.hasTasks) =>
        /\ outcome.kind = "records"
        /\ Len(outcome.records) = Len(remote.tasks)
        /\ \A i \in DOMAIN remote.tasks :
              /\ DOMAIN outcome.records[i] =
                    {"task_id", QueryKey(call.op), "location_code"}
              /\ outcome.records[i]["task_id"] = remote.tasks[i].id
              /\ outcome.records[i][QueryKey(call.op)] =
                    remote.tasks[i].data[QueryKey(call.op)]
              /\ outcome.records[i]["location_code"] =
                    remote.tasks[i].data["location_code"]

\* the remote answered T2 before T1: so do the records
C7_Witness ==
    /\ Done /\ ~Supplied /\ ~call.live /\ Posted /\ call.op = "serp"
    /\ Len(remote.tasks) = 2 /\ remote.tasks[1].id = "T2" /\ remote.tasks[2].id = "T1"
    /\ outcome.kind = "records"
    /\ outcome.records[1]["task_id"] = "T2" /\ outcome.records[1]["keyword"] = "E2"
    /\ outcome.records[2]["task_id"] = "T1"

\* C8: for serp and msv in every mode, the call with the other value of debug,
\* on the same arguments and the same decoded response, issues the same request
\* and returns the same value or raises the same error, also when a cost field
\* is missing or malformed or the response has no tasks collection.
C8_DebugDoesNotChangeOutcome ==
    Done =>
        LET other == [call EXCEPT !.debug = ~call.debug]
        IN  /\ call.op = "serp" =>
                /\ SerpResult(api_url, other, remote).outcome = outcome
                /\ SerpResult(api_url, other, remote).requests = requests
            /\ call.op = "msv" =>
                \E order \in MsvOrders(other) :
                    /\ MsvResult(api_url, other, remote, order).outcome = outcome
                    /\ MsvResult(api_url, other, remote, order).requests = requests

\* debug on, no tasks collection to sum over: the envelope is returned all the same
C8_Witness ==
    /\ Done /\ call.op = "msv" /\ call.debug /\ ~Supplied /\ call.live /\ Posted
    /\ ~remote.hasTasks
    /\ printed = <<[text |-> "Could not calculate total request cost", n |-> 0]>>
    /\ outcome.kind = "envelope" /\ outcome.envelope = remote

\* C9: for serp with no task_id and a non-empty query, the payload has one
\* element per input keyword, in input order and never batched by location;
\* element i holds keyword i, the location code of pair i or else the
\* location_code argument, and language_code "en", device "desktop", os
\* "windows", depth 100, except that every key of the extra options holds the
\* caller's value in every element; a single string counts as a list of one.
C9_SerpOneElementPerKeyword ==
    (Done /\ call.op = "serp" /\ ~Supplied /\ NonEmptyQuery /\ ~Mixed) =>
        /\ Posted
        /\ Len(Payload) = Len(Items)
        /\ call.query.shape = "str" => Len(Payload) = 1
        /\ \A i \in DOMAIN Items :
              /\ DOMAIN Payload[i] =
                    {"keyword", "location_code", "language_code", "device", "os", "depth"}
                        \cup DOMAIN call.kwargs
              /\ \A k \in DOMAIN call.kwargs : Payload[i][k] = call.kwargs[k]
              /\ Payload[i]["keyword"] = Str(Items[i].kw)
              /\ Payload[i]["location_code"] =
                    (IF AllPairs THEN PyInt(Items[i].loc) ELSE PyInt(call.location_code))
              /\ "language_code" \notin DOMAIN call.kwargs =>
                    Payload[i]["language_code"] = "en"
              /\ Payload[i]["device"] = "desktop"
              /\ Payload[i]["os"] = "windows"
              /\ Payload[i]["depth"] = 100

\* two pairs with one location code stay two elements, language_code overridden
C9_Witness ==
    /\ Done /\ call.op = "serp" /\ ~Supplied /\ AllPairs /\ Posted
    /\ Len(Items) = 2 /\ Items[1].loc = Items[2].loc /\ Items[1].kw # Items[2].kw
    /\ "language_code" \in DOMAIN call.kwargs
    /\ Len(Payload) = 2
    /\ Payload[1]["language_code"] = "de" /\ Payload[2]["tag"] = "x"

\* C10: for serp and msv with no task_id, a query list that mixes plain strings
\* and pairs is rejected with ValueError before any request; no payload is
\* built by coercing the entries to the shape of the first entry.
C10_MixedShapesRejected ==
    (Done /\ call.op \in {"serp", "msv"} /\ ~Supplied /\ Mixed) =>
        /\ outcome.kind = "raise"
        /\ outcome.exc = "ValueError"
        /\ requests = <<>>

====
